---------------------------- MODULE Spec2Model ----------------------------
(***************************************************************************)
(* MinA MoM agent: usage metering, idempotent ingestion and payment        *)
(* reconciliation (src/app.py, src/db.py, src/payments.py).                *)
(*                                                                         *)
(* The database is modelled at the level of its SQL statements under       *)
(* PostgreSQL's default READ COMMITTED isolation: a transaction's writes   *)
(* are private until its commit, SELECT ... FOR UPDATE and UPDATE take the *)
(* row lock of a committed row and wait for its holder, an INSERT of a key *)
(* that another open transaction has inserted waits for that transaction.  *)
(* Each handler is a process whose steps are its database statements and   *)
(* its external calls, in the order of the code.                           *)
(*                                                                         *)
(* Minutes and credits are counted in hundredths of a minute (the code     *)
(* rounds minutes to two decimals), time in days.  Rows are read by        *)
(* column: the container shape of a fetched row and the timezone-awareness *)
(* of a fetched timestamp are not modelled.                                *)
(***************************************************************************)
EXTENDS Integers, FiniteSets, Sequences, TLC

\* ------------------------------------------------------------------ bounds
\* concurrent calls of the reservation code; each is one execution of
\* twilio_webhook or one of decrement_minutes_if_available
NumCalls == 2
MaxNow == 1
\* concurrent executions of handle_webhook_event
NumHooks == 2
\* webhook events handled one after the other
MaxEvents == 3
\* executions of process_meeting
NumWorkers == 2

\* ------------------------------------------------------- program constants
\* users.credits_remaining DEFAULT 30.0, and the 30.0 of every INSERT of a user
DefaultCredits == 3000
\* set_subscription_active(phone, days=30)
SubscriptionDays == 30

\* ------------------------------------------------------------------ values
\* A nullable column or an optional row is a set with at most one element.
NULL == {}
Some(v) == {v}
The(s) == CHOOSE v \in s : TRUE

\* request.values.get(...) of an absent (or empty) field
Absent == ""

Phones == {"whatsapp:+1", "whatsapp:+2"}
\* the phone whose requests are followed; the other user's row stands by
Senders == {"whatsapp:+1"}
MessageSids == {"SM1", "SM2"}
MediaUrls == {"u1"}
\* seconds reported by compute_audio_duration_seconds; 0 is its answer for a
\* file it cannot read (and for the None of a failed download)
Durations == {45, 120, 1800}
\* what the probe of the local file finds: a length in seconds, or nothing
\* (no file, a file that cannot be read, no length in it)
Probes == {{}} \cup {{d} : d \in Durations}
Transcripts == {"", "text"}

PaymentIds == {"pay_1", "pay_2"}
\* payment_entity.status as the provider sends it
RawStatuses == {"authorized", "captured", "CAPTURED", "failed"}
\* payment_entity.contact (or customer, or phone); Absent when the event has none
Contacts == {Absent, "+1"}
\* what verify_razorpay_webhook comes to: True, False on a mismatch, False
\* without RAZORPAY_WEBHOOK_SECRET, or an exception
Verdicts == {"verified", "mismatch", "no_secret", "raises"}
Hooks == 1..NumHooks
\* payment_entity.status of the events handled one after the other
SeqStatuses == {"created", "authorized", "captured", "CAPTURED", "paid", "failed"}
Events == 1..MaxEvents

\* a user whose subscription ran out at time 0
LapsedUserRow ==
    [credits_remaining |-> 50, subscription_active |-> TRUE, subscription_expiry |-> Some(0)]

Calls == 1..NumCalls
\* executions of process_meeting, numbered after the calls
Workers == {NumCalls + i : i \in 1..NumWorkers}
Deliveries == Calls
Decrements == Calls

\* credits of the user rows that exist at the start
InitCredits == {50, DefaultCredits}
InitExpiries == {NULL, Some(0), Some(1)}

UserRows == [credits_remaining : InitCredits, subscription_active : BOOLEAN,
             subscription_expiry : InitExpiries]

\* INSERT INTO users (phone, credits_remaining, subscription_active, created_at)
\* VALUES (%s, 30.0, False, now()): subscription_expiry takes its default, NULL
\* INSERT INTO users (phone, credits_remaining, subscription_active, created_at)
\* VALUES (phone, 30.0, False, now())
NewUserRow == [credits_remaining |-> DefaultCredits, subscription_active |-> FALSE,
               subscription_expiry |-> NULL]

VARIABLES
    now,            \* the clock, in days
    users,          \* table users (committed): phone -> NULL or Some(row)
    users0,         \* the users table at the start (history, never written)
    rowLock,        \* phone -> NULL or Some(transaction) holding the row's lock
                    \* (or the uncommitted INSERT of the row)
    meeting_notes,  \* table meeting_notes (committed): set of rows
    nextNoteId,     \* the SERIAL sequence of meeting_notes.id
    req,            \* twilio_webhook executions
    dm,             \* decrement_minutes_if_available executions
    ext,            \* external calls made: <<execution, kind>>
    sent,           \* messages sent: <<execution, kind>>
    payments,       \* table payments (committed): a set of rows
    hook,           \* handle_webhook_event executions
    wk,             \* process_meeting executions
    dd              \* deduct_minutes executions

payVars == <<payments, hook>>
workVars == <<wk, dd>>
vars == <<now, users, users0, rowLock, meeting_notes, nextNoteId, req, dm, ext, sent, payVars,
          workVars>>

\* -------------------------------------------------------- pure functions
\* dedupe_key = message_sid or sha256(media_url) (when there is a media url).
\* The hash is kept as a tagged value: distinct urls give distinct digests, and
\* a digest (64 hex digits) is never a provider message id.
NoKey == <<"none", "">>

\* faulty variant: the key is the digest of the media url whenever there is one
DedupeKeyUrlFirst(sid, url) ==
    IF url # Absent THEN <<"sha256", url>>
    ELSE IF sid # Absent THEN <<"sid", sid>>
    ELSE NoKey

DedupeKey(sid, url) ==
    IF sid # Absent THEN <<"sid", sid>>
    ELSE IF url # Absent THEN <<"sha256", url>>
    ELSE NoKey

\* minutes = round(duration_seconds / 60.0, 2), in hundredths of a minute; for
\* whole seconds d*100/60 is never half-way between two hundredths
MinutesOf(d) == (d * 100 + 30) \div 60

\* faulty variant: a null expiry is not taken as a live subscription
SubscriptionLiveNeedsExpiry(active, expiry, t) ==
    active /\ \E e \in expiry : e > t

\* faulty variant: the expiry is not looked at
SubscriptionLiveIgnoresExpiry(active, expiry, t) == active

\* sub_active and (sub_expiry is None or sub_expiry > now)
SubscriptionLive(active, expiry, t) ==
    active /\ (expiry = NULL \/ \E e \in expiry : e > t)

ToDeduct(active, expiry, t, minutes) ==
    IF SubscriptionLive(active, expiry, t) THEN 0 ELSE minutes

\* faulty variant: only an empty balance is short
InsufficientWhenEmpty(to_deduct, credits) == to_deduct > 0 /\ credits <= 0

\* faulty variant: the comparison is turned round
InsufficientReversed(to_deduct, credits) == to_deduct > 0 /\ to_deduct < credits

\* to_deduct > 0 and credits_remaining < to_deduct
Insufficient(to_deduct, credits) == to_deduct > 0 /\ credits < to_deduct

\* faulty variant: only a processed note counts as a duplicate
IsDuplicateProcessedOnly(key) ==
    key # NoKey /\ \E n \in meeting_notes : n.message_sid = key /\ n.transcript # NULL

\* SELECT 1 FROM meeting_notes WHERE message_sid = dedupe_key LIMIT 1
IsDuplicate(key) ==
    key # NoKey /\ \E n \in meeting_notes : n.message_sid = key

\* faulty variant: the row is read without waiting for its lock
LockNotAwaited(ph) == TRUE

\* A row lock is granted when no other transaction holds it.
LockGranted(ph) == rowLock[ph] = NULL

RECURSIVE SumOver(_, _)
SumOver(S, f) ==
    IF S = {} THEN 0
    ELSE LET x == CHOOSE y \in S : TRUE IN f[x] + SumOver(S \ {x}, f)

\* ------------------------------------------------- twilio_webhook (app.py)
Tx(p) == <<"twilio_webhook", p>>

IdleReq ==
    [pc |-> "idle", sender |-> Absent, sid |-> Absent, url |-> Absent,
     after |-> {}, undetermined |-> FALSE, minutes |-> 0, credits |-> 0, sub_active |-> FALSE,
     sub_expiry |-> NULL, inserted |-> FALSE, to_deduct |-> 0,
     meeting_id |-> 0, reserved |-> FALSE, transcript |-> NULL,
     summary |-> NULL, outcome |-> "none"]

\* The locals of the reservation block go out of scope with it.
Forget(r) ==
    [r EXCEPT !.undetermined = FALSE, !.minutes = 0, !.credits = 0, !.sub_active = FALSE, !.sub_expiry = NULL,
              !.inserted = FALSE, !.to_deduct = 0]

Key(p) == DedupeKey(req[p].sid, req[p].url)

\* The request arrives: From, MessageSid, MediaUrl0 are read.  "after" records
\* the deliveries whose reservation was already committed at that moment.
Receive(p, from, sid, url) ==
    /\ req[p].pc = "idle"
    /\ dm[p].pc = "idle"
    /\ req' = [req EXCEPT ![p] = [@ EXCEPT !.pc = "dedupe", !.sender = from,
                  !.sid = sid, !.url = url,
                  !.after = {q \in Deliveries : req[q].reserved}]]
    /\ UNCHANGED <<payVars, workVars>>
    /\ UNCHANGED <<now, users, users0, rowLock, meeting_notes, nextNoteId, dm, ext, sent>>

\* faulty variant: a message without media goes on to the download
DedupeCheckIgnoresMedia(p) ==
    /\ req[p].pc = "dedupe"
    /\ IF IsDuplicate(Key(p))
       THEN /\ req' = [req EXCEPT ![p] = [@ EXCEPT !.pc = "done", !.outcome = "duplicate"]]
            /\ sent' = sent
       ELSE /\ req' = [req EXCEPT ![p].pc = "download"]
            /\ sent' = sent
    /\ UNCHANGED <<payVars, workVars>>
    /\ UNCHANGED <<now, users, users0, rowLock, meeting_notes, nextNoteId, dm, ext>>

\* The dedupe lookup, and the reply to a message without media.
DedupeCheck(p) ==
    /\ req[p].pc = "dedupe"
    /\ IF IsDuplicate(Key(p))
       THEN /\ req' = [req EXCEPT ![p] = [@ EXCEPT !.pc = "done", !.outcome = "duplicate"]]
            /\ sent' = sent
       ELSE IF req[p].url = Absent
       THEN /\ req' = [req EXCEPT ![p] = [@ EXCEPT !.pc = "done", !.outcome = "guidance"]]
            /\ sent' = sent \cup {<<p, "guidance">>}
       ELSE /\ req' = [req EXCEPT ![p].pc = "download"]
            /\ sent' = sent
    /\ UNCHANGED <<payVars, workVars>>
    /\ UNCHANGED <<now, users, users0, rowLock, meeting_notes, nextNoteId, dm, ext>>

\* compute_audio_duration_seconds: audio.info.length, or 0.0 when the file
\* cannot be read or has no length
DurationSeconds(probe) == IF probe = {} THEN 0 ELSE CHOOSE d \in probe : TRUE

\* download_media_to_local (None when the download fails),
\* compute_audio_duration_seconds, minutes
Download(p, probe) ==
    /\ req[p].pc = "download"
    /\ ext' = ext \cup {<<p, "download">>}
    /\ req' = [req EXCEPT ![p] = [@ EXCEPT !.pc = "lock", !.undetermined = (probe = {}),
                  !.minutes = MinutesOf(DurationSeconds(probe))]]
    /\ UNCHANGED <<payVars, workVars>>
    /\ UNCHANGED <<now, users, users0, rowLock, meeting_notes, nextNoteId, dm, sent>>

\* faulty variant: the length of the file is probed with the row locked
LockUserProbes(p) ==
    /\ req[p].pc = "lock"
    /\ LET ph == req[p].sender IN
       IF users[ph] # NULL
       THEN /\ LockGranted(ph)
            /\ rowLock' = [rowLock EXCEPT ![ph] = Some(Tx(p))]
            /\ req' = [req EXCEPT ![p] = [@ EXCEPT !.pc = "decide",
                          !.credits = The(users[ph]).credits_remaining,
                          !.sub_active = The(users[ph]).subscription_active,
                          !.sub_expiry = The(users[ph]).subscription_expiry]]
            /\ ext' = ext \cup {<<p, "duration">>}
       ELSE /\ req' = [req EXCEPT ![p].pc = "insert_user"]
            /\ rowLock' = rowLock
            /\ ext' = ext
    /\ UNCHANGED <<payVars, workVars>>
    /\ UNCHANGED <<now, users, users0, meeting_notes, nextNoteId, dm, sent>>

\* SELECT credits_remaining, subscription_active, subscription_expiry
\* FROM users WHERE phone = %s FOR UPDATE
LockUser(p) ==
    /\ req[p].pc = "lock"
    /\ LET ph == req[p].sender IN
       IF users[ph] # NULL
       THEN /\ LockGranted(ph)
            /\ rowLock' = [rowLock EXCEPT ![ph] = Some(Tx(p))]
            /\ req' = [req EXCEPT ![p] = [@ EXCEPT !.pc = "decide",
                          !.credits = The(users[ph]).credits_remaining,
                          !.sub_active = The(users[ph]).subscription_active,
                          !.sub_expiry = The(users[ph]).subscription_expiry]]
       ELSE /\ req' = [req EXCEPT ![p].pc = "insert_user"]
            /\ rowLock' = rowLock
    /\ UNCHANGED <<payVars, workVars>>
    /\ UNCHANGED <<now, users, users0, meeting_notes, nextNoteId, dm, ext, sent>>

\* faulty variant: the row of a new user is inserted without the free minutes
InsertUserNoGrant(p) ==
    /\ req[p].pc = "insert_user"
    /\ LET ph == req[p].sender IN
       /\ LockGranted(ph)
       /\ IF users[ph] # NULL
          THEN /\ req' = [req EXCEPT ![p] = [@ EXCEPT !.pc = "done", !.outcome = "error"]]
               /\ rowLock' = rowLock
          ELSE /\ rowLock' = [rowLock EXCEPT ![ph] = Some(Tx(p))]
               /\ req' = [req EXCEPT ![p] = [@ EXCEPT !.pc = "decide",
                             !.inserted = TRUE,
                             !.credits = 0,
                             !.sub_active = NewUserRow.subscription_active,
                             !.sub_expiry = NewUserRow.subscription_expiry]]
    /\ UNCHANGED <<payVars, workVars>>
    /\ UNCHANGED <<now, users, users0, meeting_notes, nextNoteId, dm, ext, sent>>

\* INSERT INTO users ... RETURNING: waits for an open transaction that has
\* inserted the phone; a committed row with the phone is a unique violation,
\* which the handler's except clause turns into a 204 after the rollback.
InsertUser(p) ==
    /\ req[p].pc = "insert_user"
    /\ LET ph == req[p].sender IN
       /\ LockGranted(ph)
       /\ IF users[ph] # NULL
          THEN /\ req' = [req EXCEPT ![p] = [@ EXCEPT !.pc = "done", !.outcome = "error"]]
               /\ rowLock' = rowLock
          ELSE /\ rowLock' = [rowLock EXCEPT ![ph] = Some(Tx(p))]
               /\ req' = [req EXCEPT ![p] = [@ EXCEPT !.pc = "decide",
                             !.inserted = TRUE,
                             !.credits = NewUserRow.credits_remaining,
                             !.sub_active = NewUserRow.subscription_active,
                             !.sub_expiry = NewUserRow.subscription_expiry]]
    /\ UNCHANGED <<payVars, workVars>>
    /\ UNCHANGED <<now, users, users0, meeting_notes, nextNoteId, dm, ext, sent>>

\* The subscription test, the balance test (rollback, notice, 204), the UPDATE
\* of the credits and the INSERT of the meeting row, both still uncommitted.
Decide(p) ==
    /\ req[p].pc = "decide"
    /\ LET r == req[p]
           td == ToDeduct(r.sub_active, r.sub_expiry, now, r.minutes) IN
       IF Insufficient(td, r.credits)
       THEN /\ rowLock' = [rowLock EXCEPT ![r.sender] = NULL]
            /\ sent' = sent \cup {<<p, "insufficient">>}
            /\ req' = [req EXCEPT ![p] = [Forget(@) EXCEPT !.pc = "done",
                          !.outcome = "rejected"]]
            /\ nextNoteId' = nextNoteId
       ELSE /\ req' = [req EXCEPT ![p] = [@ EXCEPT !.pc = "commit", !.to_deduct = td,
                          !.meeting_id = nextNoteId]]
            /\ nextNoteId' = nextNoteId + 1
            /\ UNCHANGED <<rowLock, sent>>
    /\ UNCHANGED <<payVars, workVars>>
    /\ UNCHANGED <<now, users, users0, meeting_notes, dm, ext>>

\* faulty variant: a charged reservation writes the subscription off
ReservedUserRowEndsSubscription(p) ==
    LET r == req[p]
        base == IF r.inserted THEN NewUserRow ELSE The(users[r.sender]) IN
    IF r.to_deduct > 0
    THEN [base EXCEPT !.credits_remaining = r.credits - r.to_deduct,
                      !.subscription_active = FALSE, !.subscription_expiry = NULL]
    ELSE base

\* The row the transaction leaves in users
ReservedUserRow(p) ==
    LET r == req[p]
        base == IF r.inserted THEN NewUserRow ELSE The(users[r.sender]) IN
    IF r.to_deduct > 0
    THEN [base EXCEPT !.credits_remaining = r.credits - r.to_deduct]
    ELSE base

PendingNote(p) ==
    [id |-> req[p].meeting_id, phone |-> req[p].sender, audio_file |-> req[p].url,
     transcript |-> NULL, summary |-> NULL, message_sid |-> Key(p)]

\* conn.commit()
Commit(p) ==
    /\ req[p].pc = "commit"
    /\ users' = [users EXCEPT ![req[p].sender] = Some(ReservedUserRow(p))]
    /\ meeting_notes' = meeting_notes \cup {PendingNote(p)}
    /\ rowLock' = [rowLock EXCEPT ![req[p].sender] = NULL]
    /\ req' = [req EXCEPT ![p] = [Forget(@) EXCEPT !.pc = "transcribe", !.reserved = TRUE,
                  !.to_deduct = req[p].to_deduct]]
    /\ UNCHANGED <<payVars, workVars>>
    /\ UNCHANGED <<now, users0, nextNoteId, dm, ext, sent>>

\* faulty variant: statements are committed one by one: a failure after the UPDATE
\* leaves the deduction behind
TxFailKeepsUpdate(p) ==
    /\ req[p].pc \in {"decide", "commit"}
    /\ users' = IF req[p].pc = "commit"
                THEN [users EXCEPT ![req[p].sender] = Some(ReservedUserRow(p))]
                ELSE users
    /\ rowLock' = [rowLock EXCEPT ![req[p].sender] = NULL]
    /\ req' = [req EXCEPT ![p] = [Forget(@) EXCEPT !.pc = "done", !.outcome = "error"]]
    /\ UNCHANGED <<payVars, workVars>>
    /\ UNCHANGED <<now, users0, meeting_notes, nextNoteId, dm, ext, sent>>

\* An exception inside the with block (a failing statement, a lost
\* connection): the connection's context manager rolls the transaction back
\* and the handler's except clause answers 204.
TxFail(p) ==
    /\ req[p].pc \in {"decide", "commit"}
    /\ rowLock' = [rowLock EXCEPT ![req[p].sender] = NULL]
    /\ req' = [req EXCEPT ![p] = [Forget(@) EXCEPT !.pc = "done", !.outcome = "error"]]
    /\ UNCHANGED <<payVars, workVars>>
    /\ UNCHANGED <<now, users, users0, meeting_notes, nextNoteId, dm, ext, sent>>

\* transcribe_audio_local_file: the text, or a RuntimeError (204)
Transcribe(p, ok, text) ==
    /\ req[p].pc = "transcribe"
    /\ ext' = ext \cup {<<p, "transcribe">>}
    /\ req' = [req EXCEPT ![p] =
                 IF ok THEN [@ EXCEPT !.pc = "summarize", !.transcript = Some(text)]
                 ELSE [@ EXCEPT !.pc = "done", !.outcome = "error"]]
    /\ UNCHANGED <<payVars, workVars>>
    /\ UNCHANGED <<now, users, users0, rowLock, meeting_notes, nextNoteId, dm, sent>>

\* call_llm_summarize: the summary, or a RuntimeError (204)
Summarize(p, ok) ==
    /\ req[p].pc = "summarize"
    /\ ext' = ext \cup {<<p, "summarize">>}
    /\ req' = [req EXCEPT ![p] =
                 IF ok THEN [@ EXCEPT !.pc = "update_note", !.summary = Some("summary")]
                 ELSE [@ EXCEPT !.pc = "done", !.outcome = "error"]]
    /\ UNCHANGED <<payVars, workVars>>
    /\ UNCHANGED <<now, users, users0, rowLock, meeting_notes, nextNoteId, dm, sent>>

\* UPDATE meeting_notes SET transcript=%s, summary=%s WHERE id=%s; commit
UpdateNote(p) ==
    /\ req[p].pc = "update_note"
    /\ meeting_notes' =
         {IF n.id = req[p].meeting_id
          THEN [n EXCEPT !.transcript = req[p].transcript, !.summary = req[p].summary]
          ELSE n : n \in meeting_notes}
    /\ req' = [req EXCEPT ![p] = [@ EXCEPT !.pc = "reply", !.transcript = NULL, !.summary = NULL]]
    /\ UNCHANGED <<payVars, workVars>>
    /\ UNCHANGED <<now, users, users0, rowLock, nextNoteId, dm, ext, sent>>

\* send_whatsapp(phone, format_summary_for_whatsapp(summary_text)); 204
Reply(p) ==
    /\ req[p].pc = "reply"
    /\ sent' = sent \cup {<<p, "result">>}
    /\ req' = [req EXCEPT ![p] = [@ EXCEPT !.pc = "done", !.outcome = "accepted"]]
    /\ UNCHANGED <<payVars, workVars>>
    /\ UNCHANGED <<now, users, users0, rowLock, meeting_notes, nextNoteId, dm, ext>>

\* ------------------------------- decrement_minutes_if_available (db.py)
DmTx(q) == <<"decrement_minutes_if_available", q>>

IdleDm ==
    [pc |-> "idle", phone |-> Absent, minutes |-> 0, credits |-> 0,
     sub_active |-> FALSE, sub_expiry |-> NULL, inserted |-> FALSE,
     deducted |-> 0, result |-> "none"]

DmCall(q, ph, m) ==
    /\ dm[q].pc = "idle"
    /\ req[q].pc = "idle"
    /\ dm' = [dm EXCEPT ![q] = [@ EXCEPT !.pc = "lock", !.phone = ph, !.minutes = m]]
    /\ UNCHANGED <<payVars, workVars>>
    /\ UNCHANGED <<now, users, users0, rowLock, meeting_notes, nextNoteId, req, ext, sent>>

\* SELECT ... FROM users WHERE phone = %s FOR UPDATE
DmLock(q) ==
    /\ dm[q].pc = "lock"
    /\ LET ph == dm[q].phone IN
       IF users[ph] # NULL
       THEN /\ LockGranted(ph)
            /\ rowLock' = [rowLock EXCEPT ![ph] = Some(DmTx(q))]
            /\ dm' = [dm EXCEPT ![q] = [@ EXCEPT !.pc = "finish",
                         !.credits = The(users[ph]).credits_remaining,
                         !.sub_active = The(users[ph]).subscription_active,
                         !.sub_expiry = The(users[ph]).subscription_expiry]]
       ELSE /\ dm' = [dm EXCEPT ![q].pc = "insert_user"]
            /\ rowLock' = rowLock
    /\ UNCHANGED <<payVars, workVars>>
    /\ UNCHANGED <<now, users, users0, meeting_notes, nextNoteId, req, ext, sent>>

\* INSERT INTO users (phone, credits_remaining) VALUES (%s, 30.0) RETURNING
\* credits_remaining; a unique violation leaves the function as an exception
DmInsertUser(q) ==
    /\ dm[q].pc = "insert_user"
    /\ LET ph == dm[q].phone IN
       /\ LockGranted(ph)
       /\ IF users[ph] # NULL
          THEN /\ dm' = [dm EXCEPT ![q] = [IdleDm EXCEPT !.pc = "done", !.phone = ph,
                            !.result = "error"]]
               /\ rowLock' = rowLock
          ELSE /\ rowLock' = [rowLock EXCEPT ![ph] = Some(DmTx(q))]
               /\ dm' = [dm EXCEPT ![q] = [@ EXCEPT !.pc = "finish", !.inserted = TRUE,
                            !.credits = NewUserRow.credits_remaining]]
    /\ UNCHANGED <<payVars, workVars>>
    /\ UNCHANGED <<now, users, users0, meeting_notes, nextNoteId, req, ext, sent>>

\* What the call deducts: nothing under a live subscription, nothing when the
\* balance is short (current < minutes_to_deduct), else the minutes
DmDeducted(q) ==
    LET r == dm[q] IN
    IF SubscriptionLive(r.sub_active, r.sub_expiry, now) THEN 0
    ELSE IF r.credits < r.minutes THEN 0
    ELSE r.minutes

DmResult(q) ==
    LET r == dm[q] IN
    IF SubscriptionLive(r.sub_active, r.sub_expiry, now) THEN "ok"
    ELSE IF r.credits < r.minutes THEN "insufficient_credits"
    ELSE "ok"

\* The three ways out of the with block: each ends the transaction with a
\* commit (the early return of the short balance through the connection's
\* context manager), so a user row inserted by the call stays.
DmFinish(q) ==
    /\ dm[q].pc = "finish"
    /\ LET r == dm[q]
           base == IF r.inserted THEN NewUserRow ELSE The(users[r.phone]) IN
       /\ users' = [users EXCEPT ![r.phone] =
                      Some([base EXCEPT !.credits_remaining = r.credits - DmDeducted(q)])]
       /\ rowLock' = [rowLock EXCEPT ![r.phone] = NULL]
       /\ dm' = [dm EXCEPT ![q] = [IdleDm EXCEPT !.pc = "done", !.phone = r.phone,
                    !.deducted = DmDeducted(q), !.result = DmResult(q)]]
    /\ UNCHANGED <<payVars, workVars>>
    /\ UNCHANGED <<now, users0, meeting_notes, nextNoteId, req, ext, sent>>

\* ------------------------------------------ payment webhooks (payments.py)
\* status_raw.lower()
Lower(raw) == IF raw = "CAPTURED" THEN "captured" ELSE raw

\* utils.normalize_phone_for_db on the contacts of the model: a number with a
\* leading + gets the whatsapp: prefix, a prefixed number stays
NormalizePhone(c) ==
    CASE c = "+1" -> "whatsapp:+1"
      [] c = "+2" -> "whatsapp:+2"
      [] OTHER -> c

paid_states == {"captured", "paid", "authorized"}

IdleHook ==
    [pc |-> "idle", verdict |-> Absent, response |-> 0, pid |-> Absent,
     raw |-> Absent, contact |-> Absent,
     status |-> Absent, phone |-> NULL, prev_status |-> NULL,
     latest_status |-> Absent, activated |-> FALSE, raised |-> FALSE,
     expiry |-> NULL, after |-> {}]

\* faulty variant: a request is turned away only on a signature mismatch
VerifiedUnlessMismatch(verdict) == verdict # "mismatch"

\* razorpay_webhook: verified is True only when verify_razorpay_webhook
\* returns True; a missing secret or a mismatch gives False, and so does an
\* exception raised by the verification
Verified(verdict) == verdict = "verified"

\* razorpay_webhook: the HTTP code for the "status" of the handler's result
ResponseCode(status) ==
    IF status \in {"ignored", "no_payment_entity"} THEN 204
    ELSE IF status = "ok" THEN 200
    ELSE 500

\* faulty variant: an event without a contact is put down to the first sender
EventPhoneGuessed(contact) ==
    IF contact = Absent THEN Some("whatsapp:+1") ELSE Some(NormalizePhone(contact))

\* phone = None; if contact: phone = normalize_phone_for_db(str(contact))
EventPhone(contact) ==
    IF contact = Absent THEN NULL ELSE Some(NormalizePhone(contact))

\* faulty variant: the status before the upsert is not looked at
ShouldActivateWheneverPaid(latest_status, prev_status) == latest_status \in paid_states

\* faulty variant: any change of status into a paid state activates
ShouldActivateOnChange(latest_status, prev_status) ==
    /\ latest_status \in paid_states
    /\ prev_status = NULL \/ The(prev_status) # latest_status

\* latest_status in paid_states and (not prev_status or prev_status not in paid_states)
ShouldActivate(latest_status, prev_status) ==
    /\ latest_status \in paid_states
    /\ prev_status = NULL \/ The(prev_status) \notin paid_states

\* UPDATE users SET subscription_active = TRUE, subscription_expiry = NOW() +
\* days, credits_remaining = GREATEST(COALESCE(credits_remaining, 0), 0)
\* WHERE phone = %s: the table after it (no row with the phone: no change)
SetSubscriptionActive(ph) ==
    IF users[ph] = NULL THEN users
    ELSE [users EXCEPT ![ph] =
            Some([The(@) EXCEPT !.subscription_active = TRUE,
                                !.subscription_expiry = Some(now + SubscriptionDays),
                                !.credits_remaining = IF @ < 0 THEN 0 ELSE @])]

\* the rows of payments with a razorpay_payment_id
RowsOf(id) == {r \in payments : r.razorpay_payment_id = id}

\* a row INSERTed into payments (id SERIAL)
NewPayment(phone, id, status) ==
    [id |-> Cardinality(payments) + 1, razorpay_payment_id |-> id,
     phone |-> phone, status |-> status]

\* faulty variant: a plain INSERT, no unique key
RecordPaymentInsertOnly(phone, id, status) ==
    payments \cup {NewPayment(phone, id, status)}

\* faulty variant: ON CONFLICT DO NOTHING
RecordPaymentKeepsFirst(phone, id, status) ==
    IF RowsOf(id) = {} THEN payments \cup {NewPayment(phone, id, status)} ELSE payments

\* record_payment: INSERT ... ON CONFLICT (razorpay_payment_id) DO UPDATE SET
\* phone, amount, currency, status, updated_at; the table after the commit
RecordPayment(phone, id, status) ==
    IF RowsOf(id) = {} THEN payments \cup {NewPayment(phone, id, status)}
    ELSE {IF r.razorpay_payment_id = id
          THEN [r EXCEPT !.phone = phone, !.status = status] ELSE r : r \in payments}

\* create_payment_link_for_phone: record_payment(phone, link id, status
\* "created"); the provider gives every link a new id
CreateLink(ph, id) ==
    /\ RowsOf(id) = {}
    /\ payments' = RecordPayment(Some(ph), id, "created")
    /\ UNCHANGED workVars
    /\ UNCHANGED <<now, users, users0, rowLock, meeting_notes, nextNoteId, req, dm, ext, sent, hook>>

\* razorpay_webhook up to the call of handle_webhook_event, and the handler's
\* reading of the event: id, status (lowercased), contact (normalized).  A
\* request that does not verify is answered 400.  "after" records the
\* executions that had returned by then.
HookReceive(h, verdict, id, raw, contact) ==
    /\ hook[h].pc = "idle"
    /\ IF Verified(verdict)
       THEN hook' = [hook EXCEPT ![h] = [@ EXCEPT !.pc = "lookup", !.verdict = verdict,
                        !.pid = id, !.raw = raw,
                        !.contact = contact, !.status = Lower(raw),
                        !.phone = EventPhone(contact),
                        !.after = {g \in DOMAIN hook : hook[g].pc = "done"}]]
       ELSE hook' = [hook EXCEPT ![h] = [@ EXCEPT !.pc = "done", !.verdict = verdict,
                        !.response = 400]]
    /\ UNCHANGED workVars
    /\ UNCHANGED <<now, users, users0, rowLock, meeting_notes, nextNoteId, req, dm, ext, sent, payments>>

\* SELECT razorpay_payment_id, status, phone FROM payments WHERE
\* razorpay_payment_id = %s LIMIT 1: prev_status, and the phone when the event
\* had none
HookLookup(h) ==
    /\ hook[h].pc = "lookup"
    /\ \/ /\ RowsOf(hook[h].pid) = {}
          /\ hook' = [hook EXCEPT ![h].pc = "upsert"]
       \/ \E existing \in RowsOf(hook[h].pid) :
             hook' = [hook EXCEPT ![h] = [@ EXCEPT !.pc = "upsert",
                         !.prev_status = Some(Lower(existing.status)),
                         !.phone = IF @ = NULL THEN existing.phone ELSE @]]
    /\ UNCHANGED workVars
    /\ UNCHANGED <<now, users, users0, rowLock, meeting_notes, nextNoteId, req, dm, ext, sent, payments>>

\* record_payment(phone, razorpay_payment_id, amount, "INR", status) and
\* latest_status = (latest_status_raw or status).lower()
HookUpsert(h) ==
    /\ hook[h].pc = "upsert"
    /\ payments' = RecordPayment(hook[h].phone, hook[h].pid, hook[h].status)
    /\ hook' = [hook EXCEPT ![h] = [@ EXCEPT !.pc = "activate",
                   !.latest_status = Lower(hook[h].status)]]
    /\ UNCHANGED workVars
    /\ UNCHANGED <<now, users, users0, rowLock, meeting_notes, nextNoteId, req, dm, ext, sent>>

\* The activation decision, set_subscription_active (ok: it returns; ~ok: it
\* raises and the handler goes on with activated = False), the result, and
\* the answer of razorpay_webhook to a result that has no "status".
HookActivate(h, ok) ==
    /\ hook[h].pc = "activate"
    /\ LET r == hook[h] IN
       IF ShouldActivate(r.latest_status, r.prev_status) /\ r.phone # NULL
       THEN IF ok
            THEN /\ LockGranted(The(r.phone))
                 /\ users' = SetSubscriptionActive(The(r.phone))
                 /\ hook' = [hook EXCEPT ![h] = [@ EXCEPT !.pc = "done", !.activated = TRUE,
                                !.expiry = Some(now + SubscriptionDays),
                                !.response = ResponseCode(Absent)]]
            ELSE /\ users' = users
                 /\ hook' = [hook EXCEPT ![h] = [@ EXCEPT !.pc = "done", !.raised = TRUE,
                                !.response = ResponseCode(Absent)]]
       ELSE /\ ok
            /\ users' = users
            /\ hook' = [hook EXCEPT ![h] = [@ EXCEPT !.pc = "done",
                           !.response = ResponseCode(Absent)]]
    /\ UNCHANGED workVars
    /\ UNCHANGED <<now, users0, rowLock, meeting_notes, nextNoteId, req, dm, ext, sent, payments>>

\* -------------------------------------- the worker (process_meeting_task.py)
IdleWorker ==
    [pc |-> "idle", meeting_id |-> 0, media_url |-> Absent, phone |-> Absent,
     fetched |-> FALSE, seen |-> NULL, transcript |-> NULL, summary |-> NULL,
     wrote |-> FALSE, send_failed |-> FALSE, result |-> "none", after |-> {}]

\* the meeting_notes rows with an id
NotesOf(id) == {n \in meeting_notes : n.id = id}

\* row.get("transcript") taken as a condition: None and "" are false
HasTranscript(t) == t # NULL /\ The(t) # ""

\* UPDATE meeting_notes SET transcript=%s, summary=%s, updated_at=now() WHERE id=%s
MarkMeetingProcessed(id, transcript, summary) ==
    {IF n.id = id THEN [n EXCEPT !.transcript = transcript, !.summary = summary] ELSE n :
        n \in meeting_notes}

\* process_meeting(meeting_id, media_url) is called
WkStart(w, id, url) ==
    /\ wk[w].pc = "idle"
    /\ wk' = [wk EXCEPT ![w] = [@ EXCEPT !.pc = "fetch", !.meeting_id = id, !.media_url = url,
                 !.after = {v \in DOMAIN wk : wk[v].pc = "done"}]]
    /\ UNCHANGED <<payVars, dd>>
    /\ UNCHANGED <<now, users, users0, rowLock, meeting_notes, nextNoteId, req, dm, ext, sent>>

\* fetch_meeting_row and the guards: no row, a transcript already there, no
\* media url (the argument, else the row's audio_file)
WkFetch(w) ==
    /\ wk[w].pc = "fetch"
    /\ \/ /\ NotesOf(wk[w].meeting_id) = {}
          /\ wk' = [wk EXCEPT ![w] = [@ EXCEPT !.pc = "done", !.result = "missing_meeting"]]
       \/ \E row \in NotesOf(wk[w].meeting_id) :
             LET media == IF wk[w].media_url # Absent THEN wk[w].media_url ELSE row.audio_file
                 r == [wk[w] EXCEPT !.fetched = TRUE, !.seen = row.transcript,
                                    !.phone = row.phone, !.media_url = media]
             IN wk' = [wk EXCEPT ![w] =
                         IF HasTranscript(row.transcript)
                         THEN [r EXCEPT !.pc = "done", !.result = "skipped"]
                         ELSE IF media = Absent
                         THEN [r EXCEPT !.pc = "done", !.result = "no_media"]
                         ELSE [r EXCEPT !.pc = "download"]]
    /\ UNCHANGED <<payVars, dd>>
    /\ UNCHANGED <<now, users, users0, rowLock, meeting_notes, nextNoteId, req, dm, ext, sent>>

\* faulty variant: a failed download closes the Work Item as failed
WkDownloadMarksFailure(w, ok) ==
    /\ wk[w].pc = "download"
    /\ ext' = ext \cup {<<w, "download">>}
    /\ IF ok
       THEN /\ wk' = [wk EXCEPT ![w].pc = "transcribe"]
            /\ sent' = sent
            /\ meeting_notes' = meeting_notes
       ELSE /\ wk' = [wk EXCEPT ![w] = [@ EXCEPT !.pc = "done", !.result = "download_failed"]]
            /\ sent' = sent \cup {<<w, "download_failed">>}
            /\ meeting_notes' = MarkMeetingProcessed(wk[w].meeting_id, Some("failed"), NULL)
    /\ UNCHANGED <<payVars, dd>>
    /\ UNCHANGED <<now, users, users0, rowLock, nextNoteId, req, dm>>

\* faulty variant: a failed download takes the reservation back: the minutes are
\* returned to the user and the Work Item is deleted
WkDownloadRollsBack(w, ok) ==
    /\ wk[w].pc = "download"
    /\ ext' = ext \cup {<<w, "download">>}
    /\ IF ok
       THEN /\ wk' = [wk EXCEPT ![w].pc = "transcribe"]
            /\ sent' = sent
            /\ UNCHANGED <<users, meeting_notes>>
       ELSE /\ wk' = [wk EXCEPT ![w] = [@ EXCEPT !.pc = "done", !.result = "download_failed"]]
            /\ sent' = sent \cup {<<w, "download_failed">>}
            /\ meeting_notes' = {n \in meeting_notes : n.id # wk[w].meeting_id}
            /\ users' = [users EXCEPT ![wk[w].phone] =
                            IF @ = NULL THEN @
                            ELSE Some([The(@) EXCEPT !.credits_remaining = DefaultCredits])]
    /\ UNCHANGED <<payVars, dd>>
    /\ UNCHANGED <<now, users0, rowLock, nextNoteId, req, dm>>

\* safe_download: a local file, or an exception (the user is told, the
\* execution returns download_failed)
WkDownload(w, ok) ==
    /\ wk[w].pc = "download"
    /\ ext' = ext \cup {<<w, "download">>}
    /\ IF ok
       THEN /\ wk' = [wk EXCEPT ![w].pc = "transcribe"]
            /\ sent' = sent
       ELSE /\ wk' = [wk EXCEPT ![w] = [@ EXCEPT !.pc = "done", !.result = "download_failed"]]
            /\ sent' = sent \cup {<<w, "download_failed">>}
    /\ UNCHANGED <<payVars, dd>>
    /\ UNCHANGED <<now, users, users0, rowLock, meeting_notes, nextNoteId, req, dm>>

\* faulty variant: a failed transcription is written to the row as its transcript
WkTranscribeMarksFailure(w, ok, text) ==
    /\ wk[w].pc = "transcribe"
    /\ ext' = ext \cup {<<w, "transcribe">>}
    /\ IF ok
       THEN /\ wk' = [wk EXCEPT ![w] = [@ EXCEPT !.pc = "summarize", !.transcript = Some(text)]]
            /\ sent' = sent
            /\ meeting_notes' = meeting_notes
       ELSE /\ wk' = [wk EXCEPT ![w] = [@ EXCEPT !.pc = "done",
                                           !.result = "transcription_failed"]]
            /\ sent' = sent \cup {<<w, "transcription_failed">>}
            /\ meeting_notes' = MarkMeetingProcessed(wk[w].meeting_id, Some("failed"), NULL)
    /\ UNCHANGED <<payVars, dd>>
    /\ UNCHANGED <<now, users, users0, rowLock, nextNoteId, req, dm>>

\* transcribe_file: the text ("" for None), or an exception (the user is
\* told, the execution returns transcription_failed)
WkTranscribe(w, ok, text) ==
    /\ wk[w].pc = "transcribe"
    /\ ext' = ext \cup {<<w, "transcribe">>}
    /\ IF ok
       THEN /\ wk' = [wk EXCEPT ![w] = [@ EXCEPT !.pc = "summarize", !.transcript = Some(text)]]
            /\ sent' = sent
       ELSE /\ wk' = [wk EXCEPT ![w] = [@ EXCEPT !.pc = "done",
                                           !.result = "transcription_failed"]]
            /\ sent' = sent \cup {<<w, "transcription_failed">>}
    /\ UNCHANGED <<payVars, dd>>
    /\ UNCHANGED <<now, users, users0, rowLock, meeting_notes, nextNoteId, req, dm>>

\* summarize_text: the summary, or an exception (summary_text = None)
WkSummarize(w, ok) ==
    /\ wk[w].pc = "summarize"
    /\ ext' = ext \cup {<<w, "summarize">>}
    /\ wk' = [wk EXCEPT ![w] = [@ EXCEPT !.pc = "persist",
                 !.summary = IF ok THEN Some("summary") ELSE NULL]]
    /\ UNCHANGED <<payVars, dd>>
    /\ UNCHANGED <<now, users, users0, rowLock, meeting_notes, nextNoteId, req, dm, sent>>

\* faulty variant: a failed UPDATE leaves the row pending again
WkPersistResets(w, ok) ==
    /\ wk[w].pc = "persist"
    /\ meeting_notes' = IF ok
                        THEN MarkMeetingProcessed(wk[w].meeting_id, wk[w].transcript,
                                                  wk[w].summary)
                        ELSE MarkMeetingProcessed(wk[w].meeting_id, NULL, NULL)
    /\ wk' = [wk EXCEPT ![w] = [@ EXCEPT !.pc = "notify", !.wrote = ok]]
    /\ UNCHANGED <<payVars, dd>>
    /\ UNCHANGED <<now, users, users0, rowLock, nextNoteId, req, dm, ext, sent>>

\* mark_meeting_processed, or an exception of it (logged, the execution goes on)
WkPersist(w, ok) ==
    /\ wk[w].pc = "persist"
    /\ meeting_notes' = IF ok
                        THEN MarkMeetingProcessed(wk[w].meeting_id, wk[w].transcript,
                                                  wk[w].summary)
                        ELSE meeting_notes
    /\ wk' = [wk EXCEPT ![w] = [@ EXCEPT !.pc = "notify", !.wrote = ok]]
    /\ UNCHANGED <<payVars, dd>>
    /\ UNCHANGED <<now, users, users0, rowLock, nextNoteId, req, dm, ext, sent>>

\* faulty variant: a failed send undoes the write and fails the execution
WkNotifyRollsBack(w, ok) ==
    /\ wk[w].pc = "notify"
    /\ sent' = IF ok THEN sent \cup {<<w, "result">>} ELSE sent
    /\ meeting_notes' = IF ok THEN meeting_notes
                        ELSE MarkMeetingProcessed(wk[w].meeting_id, NULL, NULL)
    /\ wk' = [wk EXCEPT ![w] = [@ EXCEPT !.pc = "done", !.send_failed = ~ok,
                 !.result = IF ok THEN "ok" ELSE "unexpected_error"]]
    /\ UNCHANGED <<payVars, dd>>
    /\ UNCHANGED <<now, users, users0, rowLock, nextNoteId, req, dm, ext>>

\* send_whatsapp(phone_norm, summary_text or the fallback text), or an
\* exception of it (logged); {"ok": True}
WkNotify(w, ok) ==
    /\ wk[w].pc = "notify"
    /\ sent' = IF ok THEN sent \cup {<<w, "result">>} ELSE sent
    /\ wk' = [wk EXCEPT ![w] = [@ EXCEPT !.pc = "done", !.result = "ok", !.send_failed = ~ok]]
    /\ UNCHANGED <<payVars, dd>>
    /\ UNCHANGED <<now, users, users0, rowLock, meeting_notes, nextNoteId, req, dm, ext>>

\* ------------------------------------------------- deduct_minutes (db.py)
\* user: the row that get_user or get_or_create_user returned, as a dict
IdleDd ==
    [pc |-> "idle", phone |-> Absent, minutes |-> 0, user |-> NULL,
     remaining_after |-> 0, result |-> "none", overlapped |-> NULL]

\* deduct_minutes(phone, minutes) is called
DdCall(c, ph, m) ==
    /\ dd[c].pc = "idle"
    /\ dd' = [dd EXCEPT ![c] = [@ EXCEPT !.pc = "get_user", !.phone = ph, !.minutes = m]]
    /\ UNCHANGED <<payVars, wk>>
    /\ UNCHANGED <<now, users, users0, rowLock, meeting_notes, nextNoteId, req, dm, ext, sent>>

\* What follows the row in hand: float("inf") for subscription_active, else
\* remaining_after = max(0.0, remaining - minutes) and save_user
DdWith(r, row) ==
    IF row.subscription_active
    THEN [r EXCEPT !.pc = "done", !.user = Some(row), !.result = "inf"]
    ELSE [r EXCEPT !.pc = "save_user", !.user = Some(row),
                   !.remaining_after = IF row.credits_remaining - r.minutes < 0 THEN 0
                                       ELSE row.credits_remaining - r.minutes]

\* user = get_user(phone): SELECT * FROM users WHERE phone=%s, in a
\* transaction of its own
DdGetUser(c) ==
    /\ dd[c].pc = "get_user"
    /\ dd' = [dd EXCEPT ![c] =
                IF users[dd[c].phone] = NULL THEN [@ EXCEPT !.pc = "select"]
                ELSE DdWith(@, The(users[dd[c].phone]))]
    /\ UNCHANGED <<payVars, wk>>
    /\ UNCHANGED <<now, users, users0, rowLock, meeting_notes, nextNoteId, req, dm, ext, sent>>

\* get_or_create_user: its SELECT
DdSelect(c) ==
    /\ dd[c].pc = "select"
    /\ dd' = [dd EXCEPT ![c] =
                IF users[dd[c].phone] = NULL THEN [@ EXCEPT !.pc = "insert"]
                ELSE DdWith(@, The(users[dd[c].phone]))]
    /\ UNCHANGED <<payVars, wk>>
    /\ UNCHANGED <<now, users, users0, rowLock, meeting_notes, nextNoteId, req, dm, ext, sent>>

\* get_or_create_user: INSERT INTO users ... VALUES (phone, 30.0, False, None,
\* now()) RETURNING * and the commit; a unique violation leaves
\* deduct_minutes as an exception
DdInsert(c) ==
    /\ dd[c].pc = "insert"
    /\ LockGranted(dd[c].phone)
    /\ IF users[dd[c].phone] = NULL
       THEN /\ users' = [users EXCEPT ![dd[c].phone] = Some(NewUserRow)]
            /\ dd' = [dd EXCEPT ![c] = DdWith(@, NewUserRow)]
       ELSE /\ users' = users
            /\ dd' = [dd EXCEPT ![c] = [@ EXCEPT !.pc = "done", !.result = "error"]]
    /\ UNCHANGED <<payVars, wk>>
    /\ UNCHANGED <<now, users0, rowLock, meeting_notes, nextNoteId, req, dm, ext, sent>>

\* save_user(user): INSERT ... ON CONFLICT (phone) DO UPDATE SET every column
\* from the dict, and the commit
DdSaveUser(c) ==
    /\ dd[c].pc = "save_user"
    /\ LockGranted(dd[c].phone)
    /\ users' = [users EXCEPT ![dd[c].phone] =
                    Some([The(dd[c].user) EXCEPT !.credits_remaining = dd[c].remaining_after])]
    /\ dd' = [dd EXCEPT ![c] = [@ EXCEPT !.pc = "done", !.result = "deducted"]]
    /\ UNCHANGED <<payVars, wk>>
    /\ UNCHANGED <<now, users0, rowLock, meeting_notes, nextNoteId, req, dm, ext, sent>>

\* set_subscription_active(phone) is called and commits; the executions of
\* deduct_minutes for the phone that are under way note the expiry it set
DdActivation(ph) ==
    /\ users[ph] # NULL
    /\ LockGranted(ph)
    /\ users' = SetSubscriptionActive(ph)
    /\ dd' = [c \in Calls |->
                IF dd[c].pc \notin {"idle", "done"} /\ dd[c].phone = ph
                THEN [dd[c] EXCEPT !.overlapped = Some(now + SubscriptionDays)]
                ELSE dd[c]]
    /\ UNCHANGED <<payVars, wk>>
    /\ UNCHANGED <<now, users0, rowLock, meeting_notes, nextNoteId, req, dm, ext, sent>>

\* ----------------------------------------------------------------- clock
Tick ==
    /\ now < MaxNow
    /\ now' = now + 1
    /\ UNCHANGED <<users, users0, rowLock, meeting_notes, nextNoteId, req, dm, ext, sent, payVars, workVars>>

\* ------------------------------------------------- the reservation system
InitReserve ==
    /\ now = 0
    /\ users \in [Phones -> {NULL} \cup {Some(r) : r \in UserRows}]
    /\ \A ph \in Phones \ Senders : users[ph] = Some(NewUserRow)
    /\ users0 = users
    /\ rowLock = [ph \in Phones |-> NULL]
    /\ meeting_notes = {}
    /\ nextNoteId = 1
    /\ req = [p \in Deliveries |-> IdleReq]
    /\ dm = [q \in Decrements |-> IdleDm]
    /\ ext = {}
    /\ sent = {}
    /\ payments = {}
    /\ hook = [h \in Hooks |-> IdleHook]
    /\ wk = [w \in Workers |-> IdleWorker]
    /\ dd = [c \in Calls |-> IdleDd]

NextReserve ==
    \/ \E p \in Deliveries, from \in Senders, sid \in MessageSids \cup {Absent},
          url \in MediaUrls \cup {Absent} : Receive(p, from, sid, url)
    \/ \E p \in Deliveries : DedupeCheck(p)
    \/ \E p \in Deliveries, probe \in Probes : Download(p, probe)
    \/ \E p \in Deliveries : LockUser(p)
    \/ \E p \in Deliveries : InsertUser(p)
    \/ \E p \in Deliveries : Decide(p)
    \/ \E p \in Deliveries : Commit(p)
    \/ \E p \in Deliveries : TxFail(p)
    \/ \E p \in Deliveries, ok \in BOOLEAN, text \in {"text"} : Transcribe(p, ok, text)
    \/ \E p \in Deliveries, ok \in BOOLEAN : Summarize(p, ok)
    \/ \E p \in Deliveries : UpdateNote(p)
    \/ \E p \in Deliveries : Reply(p)
    \/ \E q \in Decrements, ph \in Senders, probe \in Probes :
          DmCall(q, ph, MinutesOf(DurationSeconds(probe)))
    \/ \E q \in Decrements : DmLock(q)
    \/ \E q \in Decrements : DmInsertUser(q)
    \/ \E q \in Decrements : DmFinish(q)

SpecReserve == InitReserve /\ [][NextReserve]_vars

\* ---------------------------------------------- the reconciliation system
InitPay ==
    /\ now = 0
    /\ users \in [Phones -> {NULL, Some(NewUserRow), Some(LapsedUserRow)}]
    /\ \A ph \in Phones \ Senders : users[ph] = Some(NewUserRow)
    /\ users0 = users
    /\ rowLock = [ph \in Phones |-> NULL]
    /\ meeting_notes = {}
    /\ nextNoteId = 1
    /\ req = [p \in Deliveries |-> IdleReq]
    /\ dm = [q \in Decrements |-> IdleDm]
    /\ ext = {}
    /\ sent = {}
    /\ payments = {}
    /\ hook = [h \in Hooks |-> IdleHook]
    /\ wk = [w \in Workers |-> IdleWorker]
    /\ dd = [c \in Calls |-> IdleDd]

NextPay ==
    \/ \E ph \in Senders, id \in PaymentIds : CreateLink(ph, id)
    \/ \E h \in Hooks, v \in Verdicts, id \in PaymentIds, raw \in RawStatuses, c \in Contacts :
          HookReceive(h, v, id, raw, c)
    \/ \E h \in Hooks : HookLookup(h)
    \/ \E h \in Hooks : HookUpsert(h)
    \/ \E h \in Hooks, ok \in BOOLEAN : HookActivate(h, ok)
    \/ Tick

SpecPay == InitPay /\ [][NextPay]_vars

\* ------------------------------- webhook events handled one after the other
\* The k-th request is made when the one before it has been answered.
InitSeq ==
    /\ now = 0
    /\ users \in [Phones -> {NULL, Some(NewUserRow), Some(LapsedUserRow)}]
    /\ \A ph \in Phones \ Senders : users[ph] = Some(NewUserRow)
    /\ users0 = users
    /\ rowLock = [ph \in Phones |-> NULL]
    /\ meeting_notes = {}
    /\ nextNoteId = 1
    /\ req = [p \in Deliveries |-> IdleReq]
    /\ dm = [q \in Decrements |-> IdleDm]
    /\ ext = {}
    /\ sent = {}
    /\ payments = {}
    /\ hook = [h \in Events |-> IdleHook]
    /\ wk = [w \in Workers |-> IdleWorker]
    /\ dd = [c \in Calls |-> IdleDd]

\* the h-th request, verified, for the one transaction id
SeqReceive(h, raw, c) ==
    /\ \A g \in Events : g < h => hook[g].pc = "done"
    /\ HookReceive(h, "verified", "pay_1", raw, c)

NextSeq ==
    \/ \E ph \in Senders : CreateLink(ph, "pay_1")
    \/ \E h \in Events, raw \in SeqStatuses, c \in Contacts : SeqReceive(h, raw, c)
    \/ \E h \in Events : HookLookup(h)
    \/ \E h \in Events : HookUpsert(h)
    \/ \E h \in Events, ok \in BOOLEAN : HookActivate(h, ok)
    \/ Tick

SpecSeq == InitSeq /\ [][NextSeq]_vars

\* ------------------------------------------------------------ the worker
\* One Work Item of the one sender, pending or processed, as twilio_webhook
\* leaves it; the worker is called for it or for an id that has no row.
WorkItem(transcript, summary) ==
    [id |-> 1, phone |-> "whatsapp:+1", audio_file |-> "u1",
     transcript |-> transcript, summary |-> summary, message_sid |-> DedupeKey("SM1", "u1")]

InitWorker ==
    /\ now = 0
    /\ users = [ph \in Phones |-> Some(NewUserRow)]
    /\ users0 = users
    /\ rowLock = [ph \in Phones |-> NULL]
    /\ meeting_notes \in {{WorkItem(NULL, NULL)}, {WorkItem(Some("text"), Some("summary"))}}
    /\ nextNoteId = 2
    /\ req = [p \in Deliveries |-> IdleReq]
    /\ dm = [q \in Decrements |-> IdleDm]
    /\ ext = {}
    /\ sent = {}
    /\ payments = {}
    /\ hook = [h \in Hooks |-> IdleHook]
    /\ wk = [w \in Workers |-> IdleWorker]
    /\ dd = [c \in Calls |-> IdleDd]

NextWorker ==
    \/ \E w \in Workers, id \in {1, 2}, url \in MediaUrls \cup {Absent} : WkStart(w, id, url)
    \/ \E w \in Workers : WkFetch(w)
    \/ \E w \in Workers, ok \in BOOLEAN : WkDownload(w, ok)
    \/ \E w \in Workers, ok \in BOOLEAN, text \in Transcripts : WkTranscribe(w, ok, text)
    \/ \E w \in Workers, ok \in BOOLEAN : WkSummarize(w, ok)
    \/ \E w \in Workers, ok \in BOOLEAN : WkPersist(w, ok)
    \/ \E w \in Workers, ok \in BOOLEAN : WkNotify(w, ok)

SpecWorker == InitWorker /\ [][NextWorker]_vars

NoteIds(notes) == {n.id : n \in notes}

\* ------------------------------------------------------- deduct_minutes
DeductMinutes == {75, 200}

NextDeduct ==
    \/ \E c \in Calls, ph \in Senders, m \in DeductMinutes : DdCall(c, ph, m)
    \/ \E c \in Calls : DdGetUser(c)
    \/ \E c \in Calls : DdSelect(c)
    \/ \E c \in Calls : DdInsert(c)
    \/ \E c \in Calls : DdSaveUser(c)
    \/ \E ph \in Senders : DdActivation(ph)
    \/ Tick

SpecDeduct == InitReserve /\ [][NextDeduct]_vars

\* ------------------------------------------------ the worker, called again
\* A returned execution's slot takes the next call of process_meeting.
WkAgain(w) ==
    /\ wk[w].pc = "done"
    /\ wk' = [wk EXCEPT ![w] = IdleWorker]
    /\ UNCHANGED <<payVars, dd>>
    /\ UNCHANGED <<now, users, users0, rowLock, meeting_notes, nextNoteId, req, dm, ext, sent>>

\* process_meeting is called for a Work Item whose transcript is NULL
WkStartPending(w) ==
    \E n \in meeting_notes, url \in MediaUrls \cup {Absent} :
        /\ n.transcript = NULL
        /\ WkStart(w, n.id, url)

\* one rq worker process runs its jobs one after the other
RetryWorker == CHOOSE w \in Workers : TRUE

InitRetry ==
    /\ InitWorker
    /\ meeting_notes = {WorkItem(NULL, NULL)}

NextRetry ==
    \/ WkStartPending(RetryWorker)
    \/ WkFetch(RetryWorker)
    \/ \E ok \in BOOLEAN : WkDownload(RetryWorker, ok)
    \/ \E ok \in BOOLEAN, text \in Transcripts : WkTranscribe(RetryWorker, ok, text)
    \/ \E ok \in BOOLEAN : WkSummarize(RetryWorker, ok)
    \/ \E ok \in BOOLEAN : WkPersist(RetryWorker, ok)
    \/ \E ok \in BOOLEAN : WkNotify(RetryWorker, ok)
    \/ WkAgain(RetryWorker)

\* The worker is called again for what is pending, every execution goes on,
\* and the download, the transcription and the UPDATE do not fail for ever.
FairRetry ==
    /\ WF_vars(WkStartPending(RetryWorker))
    /\ WF_vars(WkFetch(RetryWorker))
    /\ SF_vars(WkDownload(RetryWorker, TRUE))
    /\ SF_vars(\E text \in Transcripts : WkTranscribe(RetryWorker, TRUE, text))
    /\ WF_vars(\E ok \in BOOLEAN : WkSummarize(RetryWorker, ok))
    /\ SF_vars(WkPersist(RetryWorker, TRUE))
    /\ WF_vars(\E ok \in BOOLEAN : WkNotify(RetryWorker, ok))
    /\ WF_vars(WkAgain(RetryWorker))

SpecRetry == InitRetry /\ [][NextRetry]_vars /\ FairRetry

\* ------------------------------------------- the handler and the worker
\* twilio_webhook makes the reservation and goes on inline; process_meeting
\* may be called for the Work Items it has committed.
InitFlow == InitReserve

\* one voice note is delivered, once
FlowReceive(p, from, sid, url) ==
    /\ \A q \in Deliveries : req[q].pc = "idle"
    /\ Receive(p, from, sid, url)

NextFlow ==
    \/ \E p \in Deliveries, from \in Senders, sid \in MessageSids, url \in MediaUrls :
          FlowReceive(p, from, sid, url)
    \/ \E p \in Deliveries : DedupeCheck(p)
    \/ \E p \in Deliveries, probe \in Probes : Download(p, probe)
    \/ \E p \in Deliveries : LockUser(p)
    \/ \E p \in Deliveries : InsertUser(p)
    \/ \E p \in Deliveries : Decide(p)
    \/ \E p \in Deliveries : Commit(p)
    \/ \E p \in Deliveries : TxFail(p)
    \/ \E p \in Deliveries, ok \in BOOLEAN, text \in {"text"} : Transcribe(p, ok, text)
    \/ \E p \in Deliveries, ok \in BOOLEAN : Summarize(p, ok)
    \/ \E p \in Deliveries : UpdateNote(p)
    \/ \E p \in Deliveries : Reply(p)
    \/ \E w \in Workers, id \in NoteIds(meeting_notes) : WkStart(w, id, Absent)
    \/ \E w \in Workers : WkFetch(w)
    \/ \E w \in Workers, ok \in BOOLEAN : WkDownload(w, ok)
    \/ \E w \in Workers, ok \in BOOLEAN, text \in {"text"} : WkTranscribe(w, ok, text)
    \/ \E w \in Workers, ok \in BOOLEAN : WkSummarize(w, ok)
    \/ \E w \in Workers, ok \in BOOLEAN : WkPersist(w, ok)
    \/ \E w \in Workers, ok \in BOOLEAN : WkNotify(w, ok)

SpecFlow == InitFlow /\ [][NextFlow]_vars

\* ------------------------------------------------------------ the claims
UserCredits(ph) == The(users[ph]).credits_remaining
StartCredits(ph) == The(users0[ph]).credits_remaining
ReservedBy(ph) == {p \in Deliveries : req[p].reserved /\ req[p].sender = ph}
DeductedBy(ph) == {q \in Decrements : dm[q].pc = "done" /\ dm[q].phone = ph}
Charged(ph) ==
    SumOver(ReservedBy(ph), [p \in Deliveries |-> req[p].to_deduct])
    + SumOver(DeductedBy(ph), [q \in Decrements |-> dm[q].deducted])

\* C1: of the deliveries of one sender that carry the same idempotency key at
\* most one commits a reservation (deduction and Work Item), so that there is
\* at most one Work Item with that key.
C1_NoDoubleCharge ==
    /\ \A p, q \in Deliveries :
         (p # q /\ Key(p) # NoKey /\ Key(p) = Key(q) /\ req[p].sender = req[q].sender)
            => ~(req[p].reserved /\ req[q].reserved)
    /\ \A n, m \in meeting_notes : n.message_sid = m.message_sid => n = m

\* C2: a delivery received after a delivery with the same key has committed
\* its Work Item ends as a duplicate at the dedupe lookup: it reserves nothing,
\* makes no external call and sends no message.
C2_Repeats(q) == {p \in req[q].after : p # q /\ Key(p) = Key(q)}
C2_SequentialDuplicateAbsorbed ==
    \A q \in Deliveries :
        C2_Repeats(q) # {} =>
            /\ req[q].pc \in {"dedupe", "done"}
            /\ req[q].pc = "done" => req[q].outcome = "duplicate"
            /\ ~req[q].reserved
            /\ \A c \in ext \cup sent : c[1] # q
            /\ req[q].meeting_id = 0

C2_Witness ==
    \E q \in Deliveries :
        C2_Repeats(q) # {} /\ req[q].pc = "done" /\ req[q].outcome = "duplicate"

\* C3: the balance of every user is never negative.
C3_NoNegativeBalance ==
    \A ph \in Phones : users[ph] # NULL => UserCredits(ph) >= 0

C3_Witness ==
    \E p \in Deliveries :
        /\ req[p].reserved /\ req[p].to_deduct > 0
        /\ UserCredits(req[p].sender) = 0

\* C4: the balance of a user whose row existed at the start is the starting
\* balance minus what the accepted calls were charged, and a call that holds
\* the row decides on the committed balance (no stale read): what it is
\* charged is covered by the balance the calls before it left.
C4_NoLostUpdate ==
    /\ \A ph \in Phones :
         (users0[ph] # NULL) => UserCredits(ph) = StartCredits(ph) - Charged(ph)
    /\ \A p \in Deliveries :
         (req[p].pc \in {"decide", "commit"} /\ ~req[p].inserted) =>
            /\ req[p].credits = UserCredits(req[p].sender)
            /\ req[p].pc = "commit" => req[p].to_deduct <= UserCredits(req[p].sender)
    /\ \A q \in Decrements :
         (dm[q].pc = "finish" /\ ~dm[q].inserted) => dm[q].credits = UserCredits(dm[q].phone)

C4_Witness ==
    \E p, q \in Deliveries :
        /\ p # q /\ Key(p) # Key(q) /\ req[p].sender = req[q].sender
        /\ users0[req[p].sender] # NULL
        /\ ~The(users0[req[p].sender]).subscription_active
        /\ req[p].reserved /\ req[q].reserved
        /\ req[p].to_deduct > 0 /\ req[q].to_deduct > 0

\* C5: a step that adds a Work Item is the commit of one reservation and
\* applies that reservation's deduction to its owner in the same step, and no
\* step of a delivery changes the users table without adding its Work Item:
\* whatever fails in between, no committed state holds one without the other.
C5_CommitOf(p) ==
    /\ req[p].pc = "commit"
    /\ NoteIds(meeting_notes') \ NoteIds(meeting_notes) = {req[p].meeting_id}
    /\ users'[req[p].sender] # NULL
    /\ The(users'[req[p].sender]).credits_remaining = req[p].credits - req[p].to_deduct
    /\ \A ph \in Phones \ {req[p].sender} : users'[ph] = users[ph]
C5_StepAtomic ==
    /\ NoteIds(meeting_notes') # NoteIds(meeting_notes) => \E p \in Deliveries : C5_CommitOf(p)
    /\ (users' # users /\ dm' = dm) => \E p \in Deliveries : C5_CommitOf(p)
C5_ReserveAtomic == [][C5_StepAtomic]_vars

\* a reservation with a deduction is committed while another one has failed
\* inside its transaction
C5_Witness ==
    \E p, q \in Deliveries :
        /\ req[p].reserved /\ req[p].to_deduct > 0
        /\ users0[req[p].sender] # NULL
        /\ UserCredits(req[p].sender) < StartCredits(req[p].sender)
        /\ req[q].pc = "done" /\ req[q].outcome = "error" /\ ~req[q].reserved
        /\ nextNoteId > Cardinality(meeting_notes) + 1

\* C6: a call that reads subscription_active = true with subscription_expiry
\* null or in the future is never rejected, is charged nothing, and its commit
\* leaves the balance as it was, whatever the minutes.
C6_Subscribed(r) ==
    r.sub_active /\ (r.sub_expiry = NULL \/ \E e \in r.sub_expiry : e > now)
C6_Step ==
    /\ \A p \in Deliveries :
         (req[p].pc = "decide" /\ C6_Subscribed(req[p])) =>
            /\ req'[p].outcome # "rejected"
            /\ req'[p].pc = "commit" => req'[p].to_deduct = 0
    /\ \A p \in Deliveries :
         (req[p].pc = "commit" /\ C6_Subscribed(req[p]) /\ req'[p].reserved) =>
            /\ users'[req[p].sender] # NULL
            /\ The(users'[req[p].sender]).credits_remaining = req[p].credits
            /\ req[p].meeting_id \in NoteIds(meeting_notes')
    /\ \A q \in Decrements :
         (dm[q].pc = "finish" /\ C6_Subscribed(dm[q]) /\ dm'[q].pc = "done") =>
            /\ dm'[q].result = "ok" /\ dm'[q].deducted = 0
            /\ The(users'[dm[q].phone]).credits_remaining = dm[q].credits
C7_Lapsed(r) == r.sub_active /\ \E e \in r.sub_expiry : e <= now
C7_Step ==
    /\ \A p \in Deliveries :
         (req[p].pc = "decide" /\ C7_Lapsed(req[p]) /\ req'[p].pc # "decide"
            /\ req'[p].outcome # "error") =>
            IF req[p].credits < req[p].minutes
            THEN req'[p].outcome = "rejected" /\ users' = users
            ELSE req'[p].pc = "commit" /\ req'[p].to_deduct = req[p].minutes
    /\ \A p \in Deliveries :
         (req[p].pc = "commit" /\ C7_Lapsed(req[p]) /\ req'[p].reserved) =>
            The(users'[req[p].sender]).credits_remaining = req[p].credits - req[p].minutes
    /\ \A q \in Decrements :
         (dm[q].pc = "finish" /\ C7_Lapsed(dm[q]) /\ dm'[q].pc = "done") =>
            IF dm[q].credits < dm[q].minutes
            THEN dm'[q].result = "insufficient_credits" /\ users' = users
            ELSE /\ dm'[q].result = "ok" /\ dm'[q].deducted = dm[q].minutes
                 /\ The(users'[dm[q].phone]).credits_remaining = dm[q].credits - dm[q].minutes
C8_Short(r) == ~r.sub_active /\ r.credits < r.minutes
C8_Step ==
    /\ \A p \in Deliveries :
         (req[p].pc = "decide" /\ C8_Short(req[p]) /\ req'[p].pc # "decide"
            /\ req'[p].outcome # "error") =>
            /\ req'[p].outcome = "rejected" /\ req'[p].pc = "done"
            /\ users' = users /\ meeting_notes' = meeting_notes
    /\ \A q \in Decrements :
         (dm[q].pc = "finish" /\ C8_Short(dm[q]) /\ dm'[q].pc = "done") =>
            /\ dm'[q].result = "insufficient_credits" /\ dm'[q].deducted = 0
            /\ The(users'[dm[q].phone]).credits_remaining = dm[q].credits
            /\ meeting_notes' = meeting_notes
C8_Rejected ==
    \A p \in Deliveries :
        req[p].outcome = "rejected" =>
            /\ req[p].pc = "done" /\ ~req[p].reserved /\ req[p].meeting_id = 0
            /\ <<p, "transcribe">> \notin ext /\ <<p, "summarize">> \notin ext
            /\ <<p, "result">> \notin sent
C8_InsufficientRejected == [][C8_Step]_vars /\ []C8_Rejected

\* balance 0.5, clip of 2.0 minutes: rejected, balance still 0.5
C8_Witness ==
    \E p \in Deliveries :
        /\ req[p].outcome = "rejected"
        /\ users0[req[p].sender] # NULL /\ StartCredits(req[p].sender) = 50
        /\ UserCredits(req[p].sender) = 50
        /\ \A q \in Calls : q # p => (req[q].pc = "idle" /\ dm[q].pc = "idle")


\* Two executions of handle_webhook_event handle the same paid-status event
\* for one transaction id, and no other execution has started.
SameDelivery(h1, h2) ==
    /\ h1 # h2
    /\ hook[h1].pc # "idle" /\ hook[h2].pc # "idle"
    /\ hook[h1].pid = hook[h2].pid
    /\ hook[h1].raw = hook[h2].raw
    /\ hook[h1].contact = hook[h2].contact
    /\ hook[h1].status \in paid_states
    /\ \A g \in Hooks \ {h1, h2} : hook[g].pc = "idle"

\* h2 started after h1 had returned, and has returned
C9_InSequence(h1, h2) ==
    /\ SameDelivery(h1, h2)
    /\ hook[h2].pc = "done"
    /\ h1 \in hook[h2].after

C10_ConcurrentDuplicateActivatesOnce ==
    \A h1, h2 \in Hooks :
        SameDelivery(h1, h2) => ~(hook[h1].activated /\ hook[h2].activated)


\* the first n events have been handled and no later one has been received
HandledExactly(n) ==
    /\ \A h \in Events : h <= n => hook[h].pc = "done"
    /\ \A h \in Events : h > n => hook[h].pc = "idle"

C11_Scenario ==
    /\ HandledExactly(3)
    /\ hook[1].raw = "authorized"
    /\ hook[2].raw = "captured"
    /\ hook[3].raw = "authorized"

RECURSIVE ActivationsIn(_, _)
ActivationsIn(seq, prev) ==
    IF seq = <<>> THEN 0
    ELSE (IF ShouldActivate(Lower(Head(seq)), prev) THEN 1 ELSE 0)
         + ActivationsIn(Tail(seq), Some(Lower(Head(seq))))

Orders(n) == {f \in [1..n -> 1..n] : \A i, j \in 1..n : f[i] = f[j] => i = j}

\* n events were handled, every one with the contact of the one user and
\* without a failure of set_subscription_active
C12_Handled(n) ==
    /\ HandledExactly(n)
    /\ \A h \in 1..n : hook[h].contact = "+1" /\ ~hook[h].raised

ActivationsMade(n) == Cardinality({h \in 1..n : hook[h].activated})

\* the operator ActivationsIn counts what the handler does
ActivationsInAgrees ==
    \A n \in Events :
        C12_Handled(n) =>
            ActivationsIn([i \in 1..n |-> hook[i].raw], hook[1].prev_status) = ActivationsMade(n)

\* C12: the number of activations made for the events of one transaction id,
\* handled one after the other, is the number made for every other order of
\* the same events.
C12_ActivationsOrderIndependent ==
    \A n \in Events :
        C12_Handled(n) =>
            \A f \in Orders(n) :
                ActivationsIn([i \in 1..n |-> hook[f[i]].raw], hook[1].prev_status)
                    = ActivationsMade(n)


C13_Step ==
    \A h \in DOMAIN hook :
        (~hook[h].activated /\ hook'[h].activated) =>
            LET ph == The(hook'[h].phone) IN
            /\ users'[ph] # NULL
            /\ The(users'[ph]).subscription_active
            /\ The(users'[ph]).subscription_expiry = Some(now + SubscriptionDays)

\* C13: when handle_webhook_event reports activated = true for a phone, the
\* users table then holds a row for that phone with subscription_active true
\* and subscription_expiry now + 30 days, whether or not a row existed before.
C13_ActivatedMeansSubscribed == [][C13_Step]_vars


C14_OneRecordPerId ==
    \A id \in PaymentIds : Cardinality(RowsOf(id)) <= 1

\* a delivery for an id that has a record leaves the number of records as it is
C14_Step ==
    \A h \in DOMAIN hook :
        (hook[h].pc = "upsert" /\ hook'[h].pc = "activate" /\ RowsOf(hook[h].pid) # {}) =>
            Cardinality(payments') = Cardinality(payments)

\* C14: in every reachable state the payments table holds at most one row
\* for a razorpay_payment_id, and a delivery for an id that has a row updates
\* that row and adds none.
C14_UniqueTransactionRecord == []C14_OneRecordPerId /\ [][C14_Step]_vars

\* two deliveries for one id have both written the record
C14_Witness ==
    \E h1, h2 \in DOMAIN hook :
        /\ h1 # h2
        /\ hook[h1].pc \in {"activate", "done"} /\ hook[h2].pc \in {"activate", "done"}
        /\ hook[h1].pid = hook[h2].pid /\ hook[h1].pid # Absent
        /\ Cardinality(RowsOf(hook[h1].pid)) = 1
        /\ Cardinality(payments) = 2


C15_Step ==
    \A id \in PaymentIds :
        (\E r \in RowsOf(id) : r.status \in paid_states) =>
            \A r \in RowsOf(id)' : r.status \in paid_states

\* C15: a record whose status is authorized, paid or captured is never
\* afterwards recorded with a status outside that set.
C15_PaidIsTerminal == [][C15_Step]_vars

C16_Lowercase == {"created", "authorized", "captured", "paid", "failed"}

C17_Refused(r) == r.verdict \in Verdicts \ {"verified"}

C17_Step ==
    \A h \in DOMAIN hook :
        (hook[h].pc = "idle" /\ C17_Refused(hook'[h])) =>
            /\ hook'[h].pc = "done"
            /\ hook'[h].response = 400
            /\ payments' = payments
            /\ users' = users

C17_NeverHandled ==
    \A h \in DOMAIN hook :
        C17_Refused(hook[h]) =>
            /\ hook[h].pc = "done"
            /\ hook[h].response = 400
            /\ hook[h].pid = Absent
            /\ ~hook[h].activated /\ ~hook[h].raised

\* C17: a request whose signature does not verify (a mismatch, no secret
\* configured, or the verification raising) is answered 400 and
\* handle_webhook_event is not called for it: payments and users are as before.
C17_UnverifiedRejected == [][C17_Step]_vars /\ []C17_NeverHandled

\* a request whose verification raised was refused while another delivery
\* had written its record
C17_Witness ==
    \E h \in DOMAIN hook :
        /\ hook[h].verdict = "raises"
        /\ hook[h].pc = "done"
        /\ payments # {}
        /\ \E g \in DOMAIN hook : g # h /\ hook[g].pc = "done" /\ hook[g].activated


\* the event had no contact and the lookup found no record for its id
C18_Unresolvable(r) ==
    /\ r.verdict = "verified"
    /\ r.contact = Absent
    /\ r.prev_status = NULL

C18_Step ==
    \A h \in DOMAIN hook :
        /\ (hook[h].pc = "upsert" /\ hook'[h].pc # "upsert" /\ C18_Unresolvable(hook[h])) =>
              /\ hook'[h].pc = "activate"
              /\ \E r \in RowsOf(hook[h].pid)' :
                    r.phone = NULL /\ r.status = hook[h].status
              /\ users' = users
        /\ (hook[h].pc = "activate" /\ hook'[h].pc # "activate" /\ C18_Unresolvable(hook[h])) =>
              /\ hook'[h].pc = "done"
              /\ ~hook'[h].activated
              /\ ~hook'[h].raised
              /\ hook'[h].phone = NULL
              /\ users' = users

\* C18: an event with no contact, for an id that has no record, is handled
\* without an exception: the record is written with a null phone, users is
\* unchanged, and the result has activated = false.
C18_UnresolvableRecordedNotActivated == [][C18_Step]_vars

\* such an event with a paid status has been handled
C18_Witness ==
    \E h \in DOMAIN hook :
        /\ C18_Unresolvable(hook[h])
        /\ hook[h].pc = "done"
        /\ hook[h].status \in paid_states
        /\ \E r \in RowsOf(hook[h].pid) : r.phone = NULL


\* the calls and the messages of an execution of the worker
CallsOf(w) == {c \in ext \cup sent : c[1] = w}

\* C19: an execution of process_meeting that finds a non-null transcript on
\* its Work Item (the empty string included) returns skipped, having made no
\* download, transcription, summarization or notification call and no write.
C19_ProcessedItemSkipped ==
    \A w \in DOMAIN wk :
        (wk[w].fetched /\ wk[w].seen # NULL) =>
            /\ wk[w].pc = "done"
            /\ wk[w].result = "skipped"
            /\ CallsOf(w) = {}
            /\ ~wk[w].wrote

C20_Step ==
    \A w \in DOMAIN wk :
        (wk[w].pc = "transcribe" /\ wk'[w].pc = "done") =>
            /\ wk'[w].result = "transcription_failed"
            /\ sent' = sent \cup {<<w, "transcription_failed">>}
            /\ <<w, "transcription_failed">> \notin sent
            /\ meeting_notes' = meeting_notes
            /\ ~wk'[w].wrote

\* v was called for the item of w after w had returned, and no other
\* execution has been called
C20_Retry(w, v) ==
    /\ w # v
    /\ wk[w].result = "transcription_failed"
    /\ w \in wk[v].after
    /\ wk[v].meeting_id = wk[w].meeting_id
    /\ wk[v].fetched
    /\ \A u \in DOMAIN wk \ {w, v} : wk[u].pc = "idle"

C20_NotSkipped ==
    \A w, v \in DOMAIN wk :
        C20_Retry(w, v) =>
            /\ ~HasTranscript(wk[v].seen)
            /\ wk[v].result # "skipped"
            /\ wk[v].seen = wk[w].seen

\* C20: when transcribe_file raises, the worker tells the user and returns
\* without writing transcript or summary; the Work Item is as it was, and a
\* later execution for it passes the guard on the transcript.
C20_TranscriptionFailureLeavesPending == [][C20_Step]_vars /\ []C20_NotSkipped

\* a later execution for the item went on to transcribe it
C20_Witness ==
    \E w, v \in DOMAIN wk :
        /\ C20_Retry(w, v)
        /\ wk[v].pc = "summarize"
        /\ wk[v].transcript = Some("text")


C21_Step ==
    \A w \in DOMAIN wk :
        (wk[w].pc = "persist" /\ wk'[w].wrote /\ wk[w].summary = NULL) =>
            \E n \in NotesOf(wk[w].meeting_id)' :
                n.transcript = wk[w].transcript /\ n.summary # NULL

\* C21: when transcribe_file succeeded and summarize_text raised, the step
\* that persists the result stores the transcript and a non-null summary on
\* the Work Item.
C21_SummaryPlaceholderStored == [][C21_Step]_vars

C22_Step ==
    \A w \in DOMAIN wk :
        (wk[w].pc = "notify" /\ wk'[w].pc = "done" /\ wk'[w].send_failed) =>
            /\ meeting_notes' = meeting_notes
            /\ wk'[w].result = "ok"
            /\ UNCHANGED <<users, ext, sent>>

\* C22: when the send of the result raises after the worker has written
\* transcript and summary, the row keeps them and the execution returns ok.
C22_NotifyFailureKeepsResult == [][C22_Step]_vars

\* an execution wrote its result, its send failed, and it returned
C22_Witness ==
    \E w \in DOMAIN wk :
        /\ wk[w].pc = "done"
        /\ wk[w].wrote
        /\ wk[w].send_failed
        /\ \E n \in NotesOf(wk[w].meeting_id) : n.transcript = Some("text")

\* C30: an execution of process_meeting that has sent the result message has
\* written transcript and summary to the Work Item.
C30_ResultSentAfterPersist ==
    \A w \in DOMAIN wk : <<w, "result">> \in sent => wk[w].wrote


\* C29: a verified request whose relevant event was handled to the end
\* without a failure is answered 200.
C29_HandledAnswered200 ==
    \A h \in DOMAIN hook :
        (hook[h].pc = "done" /\ hook[h].verdict = "verified" /\ ~hook[h].raised) =>
            hook[h].response = 200

\* C28: the request handler makes no transcription and no summarization call
\* of its own.
C28_HandlerLeavesWorkToWorker ==
    \A p \in Deliveries : <<p, "transcribe">> \notin ext /\ <<p, "summarize">> \notin ext


C24_Step ==
    \A p \in Deliveries :
        (req[p].pc = "dedupe" /\ req[p].url = Absent /\ req'[p] # req[p]) =>
            /\ req'[p].pc = "done"
            /\ req'[p].outcome \in {"guidance", "duplicate"}
            /\ sent' \in {sent, sent \cup {<<p, "guidance">>}}
            /\ UNCHANGED <<users, rowLock, meeting_notes, nextNoteId, ext>>

C24_NoTrace ==
    \A p \in Deliveries :
        (req[p].pc # "idle" /\ req[p].url = Absent) =>
            /\ req[p].pc \in {"dedupe", "done"}
            /\ ~req[p].reserved
            /\ CallsOf(p) \subseteq {<<p, "guidance">>}

\* C24: a message with no media url is answered without an error and without
\* a reservation: users, the row locks and meeting_notes are untouched, no
\* external call is made, and at most a guidance message is sent.
C24_NoMediaNoReservation == [][C24_Step]_vars /\ []C24_NoTrace

\* a sender that has no row got the guidance message and still has no row
C24_Witness ==
    \E p \in Deliveries :
        /\ req[p].outcome = "guidance"
        /\ <<p, "guidance">> \in sent
        /\ users[req[p].sender] = NULL

C25_Step ==
    \A p \in Deliveries :
        (req[p].pc = "decide" /\ req'[p].pc # "decide" /\ req[p].undetermined
         /\ ~req[p].sub_active /\ req'[p].outcome # "error") =>
            IF req[p].credits >= 100
            THEN req'[p].pc = "commit" /\ req'[p].to_deduct = 100
            ELSE req'[p].outcome = "rejected"

\* C25: when the length of the media could not be determined, a
\* non-subscribed user is charged 1.0 minute if the balance is at least 1.0
\* and is rejected otherwise.
C25_UndeterminedDurationChargesOneMinute == [][C25_Step]_vars

\* a delivery that inserts the user's row, with a measured clip within the grant
C26_NewUser(r) == r.inserted /\ ~r.undetermined /\ r.minutes <= DefaultCredits

C26_Step ==
    \A p \in Deliveries :
        /\ (req[p].pc = "decide" /\ req'[p].pc # "decide" /\ C26_NewUser(req[p])
            /\ req'[p].outcome # "error") =>
              /\ req'[p].pc = "commit"
              /\ req'[p].to_deduct = req[p].minutes
              /\ req[p].credits = 3000
        /\ (req[p].pc = "commit" /\ req'[p].reserved /\ C26_NewUser(req[p])) =>
              /\ users[req[p].sender] = NULL
              /\ users'[req[p].sender] =
                    Some([credits_remaining |-> 3000 - req[p].minutes,
                          subscription_active |-> FALSE, subscription_expiry |-> NULL])
              /\ \E n \in meeting_notes' :
                    /\ n.transcript = NULL /\ n.summary = NULL
                    /\ {m \in meeting_notes' : m.phone = req[p].sender} = {n}

HoldsLock(p) == \E ph \in Phones : rowLock[ph] = Some(Tx(p))

C27_Step ==
    \A p \in Deliveries :
        /\ CallsOf(p)' # CallsOf(p) => ~HoldsLock(p)'
        /\ (HoldsLock(p) /\ HoldsLock(p)') => CallsOf(p)' = CallsOf(p)

\* C27: no download, transcription, summarization or message is made by a
\* delivery while its transaction holds the user's row lock: the step that
\* makes one ends with the lock not held, and a step taken with the lock held
\* before and after it makes none.
C27_NoCallUnderLock == [][C27_Step]_vars

\* a delivery was turned away for its balance: it had downloaded before the
\* lock and it sent its notice after the rollback
C27_Witness ==
    \E p \in Deliveries :
        /\ req[p].outcome = "rejected"
        /\ <<p, "download">> \in ext
        /\ <<p, "insufficient">> \in sent
        /\ ~HoldsLock(p)


\* what a reservation leaves behind: the users rows and the Work Items
C23_Kept ==
    /\ users' = users
    /\ \A n \in meeting_notes : \E m \in meeting_notes' :
          /\ m.id = n.id /\ m.phone = n.phone
          /\ m.audio_file = n.audio_file /\ m.message_sid = n.message_sid

C23_Step ==
    /\ wk' # wk => C23_Kept
    /\ \A p \in Deliveries : (req[p].reserved /\ req'[p] # req[p]) => C23_Kept

\* C23: no step of process_meeting and no step of twilio_webhook after its
\* commit, failing or not, changes a user's credits_remaining,
\* subscription_active or subscription_expiry or removes a Work Item.
C23_ProcessingKeepsReservation == [][C23_Step]_vars

\* a charged reservation whose inline transcription failed and whose worker's
\* download failed: the deduction and the Work Item are still there
C23_Witness ==
    \E p \in Deliveries, w \in Workers :
        /\ req[p].reserved /\ req[p].to_deduct > 0
        /\ req[p].pc = "done" /\ req[p].outcome = "error"
        /\ wk[w].pc = "done" /\ wk[w].result = "download_failed"
        /\ wk[w].phone = req[p].sender
        /\ users0[req[p].sender] # NULL
        /\ UserCredits(req[p].sender) = StartCredits(req[p].sender) - req[p].to_deduct
        /\ wk[w].meeting_id \in NoteIds(meeting_notes)


\* two executions of process_meeting for one Work Item, neither of which
\* began after the other had returned
C31_Overlap(w, v) ==
    /\ w # v
    /\ wk[w].pc # "idle" /\ wk[v].pc # "idle"
    /\ wk[w].meeting_id = wk[v].meeting_id
    /\ w \notin wk[v].after /\ v \notin wk[w].after

\* C31: of two overlapping executions of process_meeting for the same
\* pending Work Item at most one invokes the transcription and at most one
\* sends the result to the user.
C31_OverlapTranscribesOnce ==
    \A w, v \in Workers :
        C31_Overlap(w, v) =>
            /\ ~(<<w, "transcribe">> \in ext /\ <<v, "transcribe">> \in ext)
            /\ ~(<<w, "result">> \in sent /\ <<v, "result">> \in sent)


C32_Pending == \E n \in meeting_notes : n.transcript = NULL
C32_Done == \A n \in meeting_notes : \E t \in Transcripts : n.transcript = Some(t)

\* C32: when process_meeting is called again for every Work Item that is
\* still pending and the download, the transcription and the UPDATE each
\* succeed in the end, a pending Work Item gets the transcript that the
\* transcription returned: no failure leaves it where no later call
\* completes it.
C32_PendingItemCompletes == C32_Pending ~> C32_Done

\* the Work Item was completed after an execution had failed on it
C32_Witness ==
    /\ C32_Done
    /\ \E n \in meeting_notes : n.transcript = Some("text")
    /\ <<RetryWorker, "download_failed">> \in sent
    /\ <<RetryWorker, "transcription_failed">> \in sent
    /\ wk[RetryWorker].pc = "done" /\ wk[RetryWorker].result = "ok" /\ wk[RetryWorker].wrote


C33_Step ==
    \A n \in meeting_notes : \E m \in meeting_notes' :
        /\ m.id = n.id
        /\ n.transcript # NULL => m.transcript # NULL

\* C33: a Work Item is never deleted, and one whose transcript is not NULL
\* never has its transcript set to NULL again.
C33_WorkItemsMonotone == [][C33_Step]_vars

\* a Work Item written by the handler and by an execution of the worker
C33_Witness ==
    \E p \in Deliveries, w \in Workers :
        /\ req[p].reserved /\ req[p].pc \in {"reply", "done"} /\ req[p].outcome # "error"
        /\ wk[w].meeting_id = req[p].meeting_id /\ wk[w].wrote
        /\ \E n \in meeting_notes : n.id = req[p].meeting_id /\ n.transcript # NULL


\* C34: the idempotency key is the provider message id when there is one and
\* otherwise the digest of the media url: two deliveries without a message id
\* and with the same media url have the same key, and the one received after
\* the other's reservation is a duplicate; two deliveries with different
\* message ids have different keys whatever their media urls, and a delivery
\* is turned away as a duplicate only for a reservation with its own key.
C34_KeyIsSidElseUrlHash ==
    \A p, q \in Deliveries :
        (p # q /\ req[p].pc # "idle" /\ req[q].pc # "idle") =>
            /\ req[p].sid # Absent => Key(p) = <<"sid", req[p].sid>>
            /\ (req[p].sid = Absent /\ req[q].sid = Absent
                /\ req[p].url # Absent /\ req[p].url = req[q].url) =>
                  /\ Key(p) = Key(q)
                  /\ (p \in req[q].after /\ req[q].pc # "dedupe") =>
                        req[q].outcome = "duplicate"
            /\ (req[p].sid # Absent /\ req[q].sid # Absent /\ req[p].sid # req[q].sid) =>
                  Key(p) # Key(q)
            /\ req[q].outcome = "duplicate" =>
                  \E r \in Deliveries : r # q /\ req[r].reserved /\ Key(r) = Key(q)

\* two deliveries with one media url: without message ids the second was a
\* duplicate
C34_Witness ==
    \E p, q \in Deliveries :
        /\ p # q
        /\ req[p].sid = Absent /\ req[q].sid = Absent
        /\ req[p].url # Absent /\ req[p].url = req[q].url
        /\ req[p].reserved
        /\ req[q].outcome = "duplicate"


\* the deliveries for a transaction id, all answered
C35_Settled(id) ==
    \A h \in DOMAIN hook : (hook[h].pc # "idle" /\ hook[h].pid = id) => hook[h].pc = "done"

\* a delivery with a paid status for the id that resolved the user and came
\* after an earlier paid delivery for the id had been answered
C35_Redelivered(id) ==
    \E g \in DOMAIN hook : \E h \in hook[g].after :
        /\ hook[g].pc = "done" /\ hook[g].pid = id /\ hook[g].phone # NULL
        /\ hook[g].latest_status \in paid_states
        /\ hook[h].pid = id /\ hook[h].latest_status \in paid_states

\* C35: a Payment Record with a user and a paid status has had the user's
\* subscription activated by one of the deliveries for its transaction id, at
\* the latest by a later delivery that resolves the user when the first paid
\* event could not activate.
C35_NoActivationLost ==
    \A r \in payments :
        (r.phone # NULL /\ Lower(r.status) \in paid_states
         /\ C35_Settled(r.razorpay_payment_id)
         /\ C35_Redelivered(r.razorpay_payment_id)) =>
            \E h \in DOMAIN hook :
                /\ hook[h].pc = "done" /\ hook[h].pid = r.razorpay_payment_id
                /\ hook[h].activated


\* p is one of two voice notes with different keys from a sender who had no
\* row, and no other writer of users is at work
C36_FirstNotes(p) ==
    /\ users0[req[p].sender] = NULL
    /\ \A d \in Decrements : dm[d].pc = "idle"
    /\ \E q \in Deliveries \ {p} :
          /\ req[q].pc # "idle"
          /\ req[q].sender = req[p].sender /\ req[q].url # Absent /\ req[p].url # Absent
          /\ Key(p) # NoKey /\ Key(q) # NoKey /\ Key(p) # Key(q)

C36_Step ==
    \A p \in Deliveries :
        (req[p].pc = "insert_user" /\ C36_FirstNotes(p) /\ req'[p] # req[p]) =>
            /\ req'[p].pc = "decide"
            /\ req'[p].outcome # "error"

\* C36: of two concurrent first voice notes with different keys from a sender
\* with no row, neither is dropped at the creation of the user's row: each
\* goes on to the balance test, to be accepted or rejected.
C36_NeitherFirstNoteDropped == [][C36_Step]_vars


\* what a reservation for the user a may do to the tables
C37_Frame(a, notesAdded) ==
    /\ \A ph \in Phones \ {a} : users'[ph] = users[ph]
    /\ users[a] # NULL =>
          /\ users'[a] # NULL
          /\ The(users'[a]).subscription_active = The(users[a]).subscription_active
          /\ The(users'[a]).subscription_expiry = The(users[a]).subscription_expiry
    /\ (users[a] = NULL /\ users'[a] # NULL) =>
          /\ ~The(users'[a]).subscription_active
          /\ The(users'[a]).subscription_expiry = NULL
    /\ meeting_notes \subseteq meeting_notes'
    /\ Cardinality(meeting_notes' \ meeting_notes) <= notesAdded
    /\ \A n \in meeting_notes' \ meeting_notes : n.phone = a
    /\ payments' = payments

C37_Step ==
    /\ \A p \in Deliveries :
          (req[p].pc \in {"lock", "insert_user", "decide", "commit"} /\ req'[p] # req[p]) =>
              C37_Frame(req[p].sender, 1)
    /\ \A q \in Decrements :
          (dm[q].pc \in {"lock", "insert_user", "finish"} /\ dm'[q] # dm[q]) =>
              C37_Frame(dm[q].phone, 0)

\* C37: a reservation for a user changes only that user's credits_remaining
\* and adds at most one Work Item, owned by that user: the user's
\* subscription_active and subscription_expiry, the rows of other users, the
\* other Work Items and the Payment Records stay as they are (a row created
\* for the user has no subscription).
C37_ReserveFrame == [][C37_Step]_vars

\* a charged reservation for a user whose subscription has lapsed: the
\* subscription fields are as at the start
C37_Witness ==
    \E p \in Deliveries :
        /\ req[p].reserved /\ req[p].to_deduct > 0
        /\ users0[req[p].sender] # NULL
        /\ The(users0[req[p].sender]).subscription_active
        /\ The(users[req[p].sender]).subscription_active
        /\ The(users[req[p].sender]).subscription_expiry =
              The(users0[req[p].sender]).subscription_expiry
        /\ UserCredits(req[p].sender) < StartCredits(req[p].sender)


\* C38: when a call of deduct_minutes has returned and set_subscription_active
\* committed for its user while it was running, the user's
\* subscription_active is TRUE and subscription_expiry is no earlier than the
\* one that activation set.
C38_ActivationNotUndone ==
    \A c \in Calls :
        (dd[c].pc = "done" /\ dd[c].overlapped # NULL) =>
            /\ users[dd[c].phone] # NULL
            /\ The(users[dd[c].phone]).subscription_active
            /\ \E e \in The(users[dd[c].phone]).subscription_expiry :
                  e >= The(dd[c].overlapped)

\* C39: two calls of deduct_minutes for one user without a subscription, with
\* minutes m1 and m2, both returned with a deduction: credits_remaining is
\* max(0, initial - m1 - m2).
C39_NoLostDeduction ==
    \A c1, c2 \in Calls :
        (/\ c1 # c2
         /\ dd[c1].pc = "done" /\ dd[c2].pc = "done"
         /\ dd[c1].phone = dd[c2].phone
         /\ dd[c1].result = "deducted" /\ dd[c2].result = "deducted"
         /\ dd[c1].overlapped = NULL /\ dd[c2].overlapped = NULL
         /\ users0[dd[c1].phone] # NULL) =>
            LET left == StartCredits(dd[c1].phone) - dd[c1].minutes - dd[c2].minutes IN
            UserCredits(dd[c1].phone) = IF left < 0 THEN 0 ELSE left

====
